---- MODULE Spec2Model ----
(***************************************************************************)
(* A model of prom-relabel-proxy: the rule tables resolved from the        *)
(* configuration, the query rewriter, the result (JSON) rewriter and the   *)
(* request/response interception pipeline of the reverse proxy.            *)
(*                                                                         *)
(* Go strings and byte slices are sequences of one-character strings.      *)
(***************************************************************************)
EXTENDS Integers, Sequences, FiniteSets, TLC

VARIABLES
    queryRules,   \* Rewriter.queryRules
    resultRules,  \* Rewriter.resultRules
    pc,           \* position of the operation under way
    query,        \* argument of RewriteQuery
    qout,         \* value returned by RewriteQuery
    jsonData,     \* argument of RewriteResultJSON
    jsonResult,   \* value returned by RewriteResultJSON
    tree,         \* the parsed document processJSONData works on
    origReq,      \* the request as the client sent it
    req,          \* the *http.Request rewriteRequest works on
    origResp,     \* the response as the backend sent it
    resp,         \* the *http.Response rewriteResponse works on
    ret,          \* what the hook returned and where it returned
    env,          \* what reading the body and the gzip writer did
    updater,      \* the goroutine in Rewriter.UpdateConfig
    reader,       \* a goroutine in RewriteQuery or RewriteResultJSON
    cfgMu,        \* Config.mu: the number of read locks held
    storing,      \* the Rewriter field a store is in flight to
    config        \* the Config New was given, where a claim speaks of it

rewriterVars == <<queryRules, resultRules, config>>
queryVars == <<query, qout>>
resultVars == <<jsonData, jsonResult, tree>>

proxyVars == <<origReq, req, origResp, resp, ret, env>>

reloadVars == <<updater, reader, cfgMu, storing>>

vars == <<queryRules, resultRules, pc, query, qout, jsonData, jsonResult, tree,
          origReq, req, origResp, resp, ret, env, updater, reader, cfgMu, storing, config>>

(***************************************************************************)
(* Bounds of the model.                                                    *)
(***************************************************************************)
MaxMappings == 2
MaxFrags == 2
MaxLabels == 2
MaxReloads == 2
MaxRewrites == 2

(***************************************************************************)
(* The Go string functions the rewriter uses.                              *)
(***************************************************************************)
HasPrefix(s, p) == Len(p) <= Len(s) /\ SubSeq(s, 1, Len(p)) = p

\* strings.Index: 0-based byte offset of the first occurrence, -1 if none
Index(s, sub) ==
    LET c == {i \in 0..(Len(s) - Len(sub)) : SubSeq(s, i + 1, i + Len(sub)) = sub}
    IN  IF c = {} THEN -1 ELSE CHOOSE i \in c : \A j \in c : i <= j

Contains(s, sub) == Index(s, sub) >= 0

IsSpace(c) == c \in {" ", "\t", "\n", "\r"}

RECURSIVE TrimLeft(_)
TrimLeft(s) ==
    IF s # <<>> /\ IsSpace(Head(s)) THEN TrimLeft(Tail(s)) ELSE s

RECURSIVE TrimRight(_)
TrimRight(s) ==
    IF s # <<>> /\ IsSpace(s[Len(s)]) THEN TrimRight(SubSeq(s, 1, Len(s) - 1)) ELSE s

TrimSpace(s) == TrimRight(TrimLeft(s))

\* strings.Split(s, sep) for a one-byte separator
RECURSIVE Split(_, _)
Split(s, sep) ==
    LET i == Index(s, sep)
    IN  IF i < 0 THEN <<s>>
        ELSE <<SubSeq(s, 1, i)>> \o Split(SubSeq(s, i + 2, Len(s)), sep)

RECURSIVE Join(_, _)
Join(parts, sep) ==
    IF parts = <<>> THEN <<>>
    ELSE IF Len(parts) = 1 THEN parts[1]
    ELSE parts[1] \o sep \o Join(Tail(parts), sep)

(***************************************************************************)
(* config.go: directions, rules, mappings, the resolved rule tables.       *)
(***************************************************************************)
DirectionQuery == "query"
DirectionResult == "result"
DirectionBoth == "both"

Rule(s, t) == [SourceLabel |-> s, TargetLabel |-> t]
Mapping(d, rs) == [Direction |-> d, Rules |-> rs]

RECURSIVE GetRules(_, _)
GetRules(mappings, direction) ==
    IF mappings = <<>> THEN <<>>
    ELSE LET mapping == Head(mappings)
         IN  (IF mapping.Direction = direction \/ mapping.Direction = DirectionBoth
              THEN mapping.Rules ELSE <<>>)
             \o GetRules(Tail(mappings), direction)

GetQueryRules(mappings) == GetRules(mappings, DirectionQuery)
GetResultRules(mappings) == GetRules(mappings, DirectionResult)

\* Config.Validate: every mapping has a known direction and at least one
\* rule, every rule a non-empty source and target label
Validate(mappings) ==
    \A i \in 1..Len(mappings) :
        /\ mappings[i].Direction \in {DirectionQuery, DirectionResult, DirectionBoth}
        /\ Len(mappings[i].Rules) > 0
        /\ \A j \in 1..Len(mappings[i].Rules) :
              /\ mappings[i].Rules[j].SourceLabel # <<>>
              /\ mappings[i].Rules[j].TargetLabel # <<>>

(***************************************************************************)
(* Rewriter.RewriteQuery.                                                  *)
(***************************************************************************)
OpEq == <<"=">>
OpRe == <<"=", "~">>
OpNe == <<"!", "=">>
OpNre == <<"!", "~">>

\* the condition of the if at lines 53-56 for one rule
PartMatches(part, rule) ==
    LET t == TrimSpace(part)
    IN  \/ HasPrefix(t, rule.SourceLabel \o OpEq)
        \/ HasPrefix(t, rule.SourceLabel \o OpRe)
        \/ HasPrefix(t, rule.SourceLabel \o OpNe)
        \/ HasPrefix(t, rule.SourceLabel \o OpNre)

\* lines 58-65
DetectOperator(part) ==
    IF Contains(part, OpRe) THEN OpRe
    ELSE IF Contains(part, OpNe) THEN OpNe
    ELSE IF Contains(part, OpNre) THEN OpNre
    ELSE OpEq

\* lines 67-70: the replacement of a part a rule matched
ReplacePart(part, rule) ==
    LET operator == DetectOperator(part)
        valueStart == Index(part, operator) + Len(operator)
        value == SubSeq(part, valueStart + 1, Len(part))
    IN  rule.TargetLabel \o operator \o value

\* the inner loop over r.queryRules, leaving at the first match (break)
\* a variant without the break: the last rule that matches decides
RewritePart_LastMatch(rules, part) ==
    LET hits == {k \in 1..Len(rules) : PartMatches(part, rules[k])}
    IN  IF hits = {} THEN part
        ELSE ReplacePart(part, rules[CHOOSE k \in hits : \A j \in hits : k >= j])

\* a variant that hands back an unmatched fragment without its spaces
RewritePart_Trimmed(rules, part) ==
    LET hits == {k \in 1..Len(rules) : PartMatches(part, rules[k])}
    IN  IF hits = {} THEN TrimSpace(part)
        ELSE ReplacePart(part, rules[CHOOSE k \in hits : \A j \in hits : k <= j])

RewritePart(rules, part) ==
    LET hits == {k \in 1..Len(rules) : PartMatches(part, rules[k])}
    IN  IF hits = {} THEN part
        ELSE ReplacePart(part, rules[CHOOSE k \in hits : \A j \in hits : k <= j])

\* the function handed to ReplaceAllStringFunc
RewriteMatch(rules, match) ==
    LET inner == SubSeq(match, 2, Len(match) - 1)
        parts == Split(inner, <<",">>)
        newParts == [i \in 1..Len(parts) |-> RewritePart(rules, parts[i])]
    IN  <<"{">> \o Join(newParts, <<",">>) \o <<"}">>

\* regexp \{([^{}]*)\} tried at position p (1-based): the position of the
\* closing brace of the match, 0 when there is no match at p
MatchEnd(s, p) ==
    IF s[p] # "{" THEN 0
    ELSE LET braces == {q \in (p + 1)..Len(s) : s[q] \in {"{", "}"}}
         IN  IF braces = {} THEN 0
             ELSE LET q == CHOOSE q \in braces : \A r \in braces : q <= r
                  IN  IF s[q] = "}" THEN q ELSE 0

\* ReplaceAllStringFunc: leftmost non-overlapping matches, the text between
\* them copied
RECURSIVE ReplaceAllFrom(_, _, _)
ReplaceAllFrom(rules, s, i) ==
    IF i > Len(s) THEN <<>>
    ELSE LET q == MatchEnd(s, i)
         IN  IF q > 0
             THEN RewriteMatch(rules, SubSeq(s, i, q)) \o ReplaceAllFrom(rules, s, q + 1)
             ELSE <<s[i]>> \o ReplaceAllFrom(rules, s, i + 1)

RewriteQuery(rules, q) ==
    IF Len(rules) = 0 THEN q ELSE ReplaceAllFrom(rules, q, 1)

(***************************************************************************)
(* encoding/json as the result rewriter uses it.  A JSON text is a         *)
(* sequence of tokens [k, v]: punctuation, string, number, literal,        *)
(* whitespace, or bytes that are no JSON token; v is the token's text.     *)
(* A parsed value is a record [t, v]: an object maps keys to values, an    *)
(* array is a sequence of values, a number is the text of its float64.     *)
(***************************************************************************)
Tok(k, v) == [k |-> k, v |-> v]
P(c) == Tok("punct", <<c>>)

JObj(m) == [t |-> "obj", v |-> m]
JArr(a) == [t |-> "arr", v |-> a]
JStr(x) == [t |-> "str", v |-> x]
JNum(x) == [t |-> "num", v |-> x]
JLit(x) == [t |-> "lit", v |-> x]
JNull == JLit(<<"n", "u", "l", "l">>)

IsObj(x) == x.t = "obj"

\* a JSON number becomes a float64 and is written back in Go's shortest
\* form: an exponent is expanded, an integer above 2^53 is rounded
Float64Text(lit) ==
    IF lit = <<"1", "e", "3">> THEN <<"1", "0", "0", "0">>
    ELSE IF lit = <<"9", "0", "0", "7", "1", "9", "9", "2", "5", "4", "7", "4", "0", "9", "9", "3">>
    THEN <<"9", "0", "0", "7", "1", "9", "9", "2", "5", "4", "7", "4", "0", "9", "9", "2">>
    ELSE lit

SetKey(m, k, val) == [x \in (DOMAIN m) \cup {k} |-> IF x = k THEN val ELSE m[x]]
DeleteKey(m, k) == [x \in (DOMAIN m) \ {k} |-> m[x]]

EndTok == Tok("end", <<>>)
TokAt(toks, i) == IF i >= 1 /\ i <= Len(toks) THEN toks[i] ELSE EndTok

RECURSIVE SkipWs(_, _)
SkipWs(toks, i) ==
    IF TokAt(toks, i).k = "ws" THEN SkipWs(toks, i + 1) ELSE i

ParseFail == [ok |-> FALSE, val |-> JNull, next |-> 0]
ParseOk(val, next) == [ok |-> TRUE, val |-> val, next |-> next]

RECURSIVE ParseValue(_, _)
RECURSIVE ParseMembers(_, _, _)
RECURSIVE ParseElements(_, _, _)

\* the members of an object after "{" or ","; a repeated key keeps its
\* last value
ParseMembers(toks, i0, acc) ==
    LET i == SkipWs(toks, i0)
        c == SkipWs(toks, i + 1)
    IN  IF TokAt(toks, i).k # "str" \/ TokAt(toks, c) # P(":") THEN ParseFail
        ELSE LET r == ParseValue(toks, c + 1)
             IN  IF ~r.ok THEN ParseFail
                 ELSE LET n == SkipWs(toks, r.next)
                          acc2 == SetKey(acc, TokAt(toks, i).v, r.val)
                      IN  IF TokAt(toks, n) = P("}") THEN ParseOk(JObj(acc2), n + 1)
                          ELSE IF TokAt(toks, n) = P(",") THEN ParseMembers(toks, n + 1, acc2)
                          ELSE ParseFail

ParseElements(toks, i0, acc) ==
    LET r == ParseValue(toks, i0)
    IN  IF ~r.ok THEN ParseFail
        ELSE LET n == SkipWs(toks, r.next)
                 acc2 == Append(acc, r.val)
             IN  IF TokAt(toks, n) = P("]") THEN ParseOk(JArr(acc2), n + 1)
                 ELSE IF TokAt(toks, n) = P(",") THEN ParseElements(toks, n + 1, acc2)
                 ELSE ParseFail

ParseValue(toks, i0) ==
    LET i == SkipWs(toks, i0)
        tok == TokAt(toks, i)
    IN  IF tok.k = "str" THEN ParseOk(JStr(tok.v), i + 1)
        ELSE IF tok.k = "num" THEN ParseOk(JNum(Float64Text(tok.v)), i + 1)
        ELSE IF tok.k = "lit" THEN ParseOk(JLit(tok.v), i + 1)
        ELSE IF tok = P("{")
        THEN IF TokAt(toks, SkipWs(toks, i + 1)) = P("}")
             THEN ParseOk(JObj(<<>>), SkipWs(toks, i + 1) + 1)
             ELSE ParseMembers(toks, i + 1, <<>>)
        ELSE IF tok = P("[")
        THEN IF TokAt(toks, SkipWs(toks, i + 1)) = P("]")
             THEN ParseOk(JArr(<<>>), SkipWs(toks, i + 1) + 1)
             ELSE ParseElements(toks, i + 1, <<>>)
        ELSE ParseFail

\* a whole JSON text: one value and nothing but whitespace after it
ParseJSON(data) ==
    LET r == ParseValue(data, 1)
    IN  IF r.ok /\ SkipWs(data, r.next) > Len(data) THEN r ELSE ParseFail

\* json.Unmarshal(jsonData, &data) with data a map[string]interface{}: an
\* error unless the text is one JSON object (or null, which leaves the map nil)
Unmarshal(data) ==
    LET r == ParseJSON(data)
    IN  IF r.ok /\ (IsObj(r.val) \/ r.val = JNull) THEN r ELSE ParseFail

\* byte order of the characters object keys are made of
AsciiOrder ==
    <<"T", "[", "]", "_", "a", "b", "c", "d", "e", "f", "g", "h", "i", "j", "k", "l", "m",
      "n", "o", "p", "q", "r", "s", "t", "u", "v", "w", "x", "y", "z">>

Ord(c) == CHOOSE i \in 1..Len(AsciiOrder) : AsciiOrder[i] = c

RECURSIVE LexLess(_, _)
LexLess(a, b) ==
    IF b = <<>> THEN FALSE
    ELSE IF a = <<>> THEN TRUE
    ELSE IF Head(a) = Head(b) THEN LexLess(Tail(a), Tail(b))
    ELSE Ord(Head(a)) < Ord(Head(b))

\* the keys of a map in the order json.Marshal writes them
RECURSIVE SortedKeys(_)
SortedKeys(ks) ==
    IF ks = {} THEN <<>>
    ELSE LET least == CHOOSE k \in ks : \A o \in ks \ {k} : LexLess(k, o)
         IN  <<least>> \o SortedKeys(ks \ {least})

RECURSIVE Marshal(_)
RECURSIVE MarshalMembers(_, _)
RECURSIVE MarshalElements(_)

MarshalMembers(m, keys) ==
    IF keys = <<>> THEN <<>>
    ELSE <<Tok("str", Head(keys)), P(":")>> \o Marshal(m[Head(keys)])
         \o (IF Len(keys) > 1 THEN <<P(",")>> ELSE <<>>)
         \o MarshalMembers(m, Tail(keys))

MarshalElements(a) ==
    IF a = <<>> THEN <<>>
    ELSE Marshal(Head(a))
         \o (IF Len(a) > 1 THEN <<P(",")>> ELSE <<>>)
         \o MarshalElements(Tail(a))

\* json.Marshal: no whitespace, object keys sorted
Marshal(x) ==
    IF x.t = "obj" THEN <<P("{")>> \o MarshalMembers(x.v, SortedKeys(DOMAIN x.v)) \o <<P("}")>>
    ELSE IF x.t = "arr" THEN <<P("[")>> \o MarshalElements(x.v) \o <<P("]")>>
    ELSE <<Tok(x.t, x.v)>>

(***************************************************************************)
(* Rewriter.processJSONData and Rewriter.RewriteResultJSON.                *)
(***************************************************************************)
metric == <<"m", "e", "t", "r", "i", "c">>

\* lines 131-134: one rule applied to the label set
\* a variant that keeps a target label the label set already has
ApplyRule_KeepTarget(m, rule) ==
    IF rule.SourceLabel \in DOMAIN m
    THEN IF rule.TargetLabel \in DOMAIN m
         THEN DeleteKey(m, rule.SourceLabel)
         ELSE DeleteKey(SetKey(m, rule.TargetLabel, m[rule.SourceLabel]), rule.SourceLabel)
    ELSE m

ApplyRule(m, rule) ==
    IF rule.SourceLabel \in DOMAIN m
    THEN DeleteKey(SetKey(m, rule.TargetLabel, m[rule.SourceLabel]), rule.SourceLabel)
    ELSE m

\* lines 130-135: the loop over r.resultRules
RECURSIVE ApplyRules(_, _)
ApplyRules(m, rules) ==
    IF rules = <<>> THEN m
    ELSE ApplyRules(ApplyRule(m, Head(rules)), Tail(rules))

RECURSIVE processJSONData(_, _)
processJSONData(rules, data) ==
    IF data.t = "obj"
    THEN LET v == data.v
             v2 == IF metric \in DOMAIN v /\ IsObj(v[metric])
                   THEN [v EXCEPT ![metric] = JObj(ApplyRules(v[metric].v, rules))]
                   ELSE v
         IN  JObj([k \in DOMAIN v2 |-> processJSONData(rules, v2[k])])
    ELSE IF data.t = "arr"
    THEN JArr([i \in 1..Len(data.v) |-> processJSONData(rules, data.v[i])])
    ELSE data

\* json.Marshal cannot fail on a value json.Unmarshal built, so the
\* fallback of lines 115-118 is never taken
RewriteResultJSON(rules, bytes) ==
    IF Len(rules) = 0 THEN bytes
    ELSE LET r == Unmarshal(bytes)
         IN  IF ~r.ok THEN bytes
             ELSE Marshal(processJSONData(rules, r.val))

(***************************************************************************)
(* net/url as the rewriter and the proxy use it: url.Values, ParseQuery,   *)
(* Values.Encode, QueryEscape and QueryUnescape.  A url.Values is a        *)
(* function from keys to the sequence of the key's values.                 *)
(***************************************************************************)
\* the characters of the model that QueryEscape writes as %XX
EscapeTable ==
    { <<<<"{">>, <<"7", "B">>>>,
      <<<<"}">>, <<"7", "D">>>>,
      <<<<"=">>, <<"3", "D">>>>,
      <<<<"!">>, <<"2", "1">>>>,
      <<<<"\"">>, <<"2", "2">>>>,
      <<<<"[">>, <<"5", "B">>>>,
      <<<<"]">>, <<"5", "D">>>>,
      <<<<"/">>, <<"2", "F">>>>,
      <<<<",">>, <<"2", "C">>>>,
      <<<<"&">>, <<"2", "6">>>>,
      <<<<"%">>, <<"2", "5">>>>,
      <<<<"+">>, <<"2", "B">>>>,
      <<<<";">>, <<"3", "B">>>>,
      <<<<":">>, <<"3", "A">>>> }

Unreserved ==
    {"a", "b", "c", "d", "e", "f", "g", "h", "i", "j", "k", "l", "m", "n", "o", "p",
     "q", "r", "s", "t", "u", "v", "w", "x", "y", "z", "T",
     "0", "1", "2", "3", "4", "5", "6", "7", "8", "9", "-", "_", ".", "~"}

EscapeChar(c) ==
    IF c \in Unreserved THEN <<c>>
    ELSE IF c = " " THEN <<"+">>
    ELSE <<"%">> \o (CHOOSE e \in EscapeTable : e[1] = <<c>>)[2]

RECURSIVE QueryEscape(_)
QueryEscape(x) ==
    IF x = <<>> THEN <<>> ELSE EscapeChar(Head(x)) \o QueryEscape(Tail(x))

\* QueryUnescape: [ok, val]; a % that two hex digits do not follow is an error
RECURSIVE QueryUnescape(_)
QueryUnescape(x) ==
    IF x = <<>> THEN [ok |-> TRUE, val |-> <<>>]
    ELSE IF Head(x) = "%"
    THEN IF Len(x) >= 3 /\ \E e \in EscapeTable : e[2] = SubSeq(x, 2, 3)
         THEN LET rest == QueryUnescape(SubSeq(x, 4, Len(x)))
                  c == (CHOOSE e \in EscapeTable : e[2] = SubSeq(x, 2, 3))[1]
              IN  [ok |-> rest.ok, val |-> c \o rest.val]
         ELSE [ok |-> FALSE, val |-> <<>>]
    ELSE LET rest == QueryUnescape(Tail(x))
         IN  [ok |-> rest.ok, val |-> <<(IF Head(x) = "+" THEN " " ELSE Head(x))>> \o rest.val]

AddValue(m, k, val) ==
    [x \in (DOMAIN m) \cup {k} |->
        IF x = k THEN (IF k \in DOMAIN m THEN Append(m[k], val) ELSE <<val>>) ELSE m[x]]

\* url.ParseQuery: [ok, val]; a pair that cannot be decoded is left out and
\* makes ok false, the pairs that can be decoded are all in val
RECURSIVE ParsePairs(_, _)
ParsePairs(pairs, m) ==
    IF pairs = <<>> THEN [ok |-> TRUE, val |-> m]
    ELSE LET pair == Head(pairs)
             eq == Index(pair, <<"=">>)
             rawKey == IF eq < 0 THEN pair ELSE SubSeq(pair, 1, eq)
             rawVal == IF eq < 0 THEN <<>> ELSE SubSeq(pair, eq + 2, Len(pair))
             key == QueryUnescape(rawKey)
             val == QueryUnescape(rawVal)
         IN  IF pair = <<>> THEN ParsePairs(Tail(pairs), m)
             ELSE IF Contains(pair, <<";">>) \/ ~key.ok \/ ~val.ok
             THEN [ok |-> FALSE, val |-> ParsePairs(Tail(pairs), m).val]
             ELSE ParsePairs(Tail(pairs), AddValue(m, key.val, val.val))

ParseQuery(x) == ParsePairs(Split(x, <<"&">>), <<>>)

RECURSIVE EncodeValues(_, _)
EncodeValues(key, values) ==
    IF values = <<>> THEN <<>>
    ELSE <<QueryEscape(key) \o <<"=">> \o QueryEscape(Head(values))>>
         \o EncodeValues(key, Tail(values))

RECURSIVE EncodeKeys(_, _)
EncodeKeys(m, keys) ==
    IF keys = <<>> THEN <<>>
    ELSE EncodeValues(Head(keys), m[Head(keys)]) \o EncodeKeys(m, Tail(keys))

\* Values.Encode: key=value pairs joined by &, sorted by key
Encode(m) == Join(EncodeKeys(m, SortedKeys(DOMAIN m)), <<"&">>)

p_query == <<"q", "u", "e", "r", "y">>
p_match == <<"m", "a", "t", "c", "h", "[", "]">>

\* the loops of RewriteQueryURL (lines 85-91) and rewriteRequest (lines
\* 115-123): every value of query and match[] goes through RewriteQuery
RewriteParams(rules, m) ==
    [k \in DOMAIN m |->
        IF k \in {p_query, p_match}
        THEN [i \in 1..Len(m[k]) |-> RewriteQuery(rules, m[k][i])]
        ELSE m[k]]

\* Rewriter.RewriteQueryURL on the URL's RawQuery; URL.Query() drops the
\* pairs it cannot decode
RewriteQueryURL(rules, rawQuery) == Encode(RewriteParams(rules, ParseQuery(rawQuery).val))

(***************************************************************************)
(* strconv.Itoa, message bodies and compress/gzip.                         *)
(***************************************************************************)
Digits == <<"0", "1", "2", "3", "4", "5", "6", "7", "8", "9">>

RECURSIVE Itoa(_)
Itoa(n) ==
    IF n < 0 THEN <<"-">> \o Itoa(0 - n)
    ELSE IF n < 10 THEN <<Digits[n + 1]>>
    ELSE Itoa(n \div 10) \o <<Digits[(n % 10) + 1]>>

\* an io.ReadCloser over data: off bytes of it have been read
Stream(data) == [data |-> data, off |-> 0]
\* what a reader of the body still gets
Remaining(body) == SubSeq(body.data, body.off + 1, Len(body.data))

\* a gzip stream: header, deflated content, trailer
GzHeader(level) == Tok("gzhdr", level)
GzTrailer == Tok("gztrl", <<>>)
DefaultCompression == <<"d">>
GzipStream(level, content) == <<GzHeader(level)>> \o content \o <<GzTrailer>>

\* gzip.NewReader fails unless the bytes begin with a gzip header
NewReaderOk(b) == Len(b) >= 1 /\ b[1].k = "gzhdr"
\* ioutil.ReadAll(reader) fails unless the stream is complete
ReadAllOk(b) == Len(b) >= 2 /\ b[Len(b)].k = "gztrl"
Inflated(b) == SubSeq(b, 2, Len(b) - 1)

\* what gzipWriter.Write and gzipWriter.Close leave in buf: the complete
\* stream, or, when Close fails, a stream without its trailer with the
\* content flushed or not
GzipBuffer(content, e) ==
    IF e.closeOk THEN GzipStream(DefaultCompression, content)
    ELSE <<GzHeader(DefaultCompression)>> \o (IF e.flushed THEN content ELSE <<>>)

\* http.Header
Get(h, name) == IF name \in DOMAIN h THEN h[name] ELSE <<>>
Set(h, name, val) == SetKey(h, name, val)
Del(h, name) == DeleteKey(h, name)

(***************************************************************************)
(* proxy.go: PrometheusProxy.rewriteRequest and rewriteResponse.  A        *)
(* message is [Header, ContentLength, Body]; a request has Method,         *)
(* RawQuery (of its URL) and HasBody (Body is not nil) as well.            *)
(***************************************************************************)
ct_form == <<"a", "p", "p", "l", "i", "c", "a", "t", "i", "o", "n", "/", "x", "-", "w", "w", "w", "-", "f", "o", "r", "m", "-", "u", "r", "l", "e", "n", "c", "o", "d", "e", "d">>
application_json == <<"a", "p", "p", "l", "i", "c", "a", "t", "i", "o", "n", "/", "j", "s", "o", "n">>
gzip == <<"g", "z", "i", "p">>

Returned(m, err, exit) == [msg |-> m, err |-> err, exit |-> exit]

Min(a, b) == IF a < b THEN a ELSE b

\* lines 125-134: the re-encoded form becomes the body
SetRequestBody(r, newBody) ==
    [r EXCEPT !.Body = Stream(newBody),
              !.ContentLength = Len(newBody),
              !.Header = Set(@, "Content-Length", Itoa(Len(newBody)))]

\* e: whether reading the body succeeds and how much a failed read consumed
rewriteRequest(rules, r0, e) ==
    LET r == [r0 EXCEPT !.RawQuery = RewriteQueryURL(rules, @)]
    IN  IF r.Method = "POST" /\ r.HasBody
        THEN IF Get(r.Header, "Content-Type") = ct_form
             THEN IF ~e.readOk
                  THEN Returned([r EXCEPT !.Body.off = Min(e.readN, Len(r.Body.data))],
                                FALSE, "readErr")
                  ELSE LET body == Remaining(r.Body)
                           read == [r EXCEPT !.Body.off = Len(r.Body.data)]
                           form == ParseQuery(body)
                       IN  IF ~form.ok THEN Returned(read, FALSE, "parseErr")
                           ELSE Returned(
                                    SetRequestBody(read, Encode(RewriteParams(rules, form.val))),
                                    FALSE, "rewritten")
             ELSE Returned(r, FALSE, "skip")
        ELSE Returned(r, FALSE, "skip")

\* line 147
\* a variant that takes every application/ media type for JSON
IsJSONResponse_AnyApplication(contentType) ==
    Contains(contentType, <<"a", "p", "p", "l", "i", "c", "a", "t", "i", "o", "n", "/">>)

IsJSONResponse(contentType) == Contains(contentType, application_json)

\* a variant that leaves the Content-Length header as it came
SetResponseBody_StaleHeader(r, finalBody) ==
    [r EXCEPT !.Body = Stream(finalBody),
              !.ContentLength = Len(finalBody)]

\* lines 237-244: the final body becomes the body
SetResponseBody(r, finalBody) ==
    [r EXCEPT !.Body = Stream(finalBody),
              !.ContentLength = Len(finalBody),
              !.Header = Set(@, "Content-Length", Itoa(Len(finalBody)))]

\* lines 218-235: [body, header] after recompression
Recompress(r, contentEncoding, newBody, e) ==
    IF contentEncoding = gzip
    THEN IF ~e.writeOk
         THEN [body |-> newBody, header |-> Del(r.Header, "Content-Encoding")]
         ELSE [body |-> GzipBuffer(newBody, e), header |-> r.Header]
    ELSE [body |-> newBody, header |-> r.Header]

\* e: whether reading the body succeeds, and what gzipWriter.Write and
\* gzipWriter.Close do
rewriteResponse(rules, r, e) ==
    IF ~IsJSONResponse(Get(r.Header, "Content-Type")) THEN Returned(r, FALSE, "skip")
    ELSE LET contentEncoding == Get(r.Header, "Content-Encoding")
         IN  IF ~e.readOk
             THEN Returned([r EXCEPT !.Body.off = Min(e.readN, Len(r.Body.data))],
                           TRUE, "readErr")
             ELSE LET body == Remaining(r.Body)
                  IN  IF contentEncoding = gzip /\ (~NewReaderOk(body) \/ ~ReadAllOk(body))
                      THEN Returned([r EXCEPT !.Body = Stream(body)], FALSE, "gunzipErr")
                      ELSE LET decompressedBody ==
                                   IF contentEncoding = gzip THEN Inflated(body) ELSE body
                               newBody == RewriteResultJSON(rules, decompressedBody)
                               final == Recompress(r, contentEncoding, newBody, e)
                           IN  Returned(
                                   SetResponseBody([r EXCEPT !.Header = final.header], final.body),
                                   FALSE, "rewritten")

(***************************************************************************)
(* Inputs of the query rewriter: label names, rule lists, configurations   *)
(* and queries.                                                            *)
(***************************************************************************)
job == <<"j", "o", "b">>
jobs == <<"j", "o", "b", "s">>
svc == <<"s", "v", "c">>
host == <<"h", "o", "s", "t">>
foo == <<"f", "o", "o">>

Directions == {DirectionQuery, DirectionResult, DirectionBoth}

\* the rule lists a mapping of a configuration is drawn from
RuleLists == { <<Rule(job, svc)>>, <<Rule(svc, job), Rule(job, host)>> }

SeqsUpTo(S, n) == UNION {[1..k -> S] : k \in 0..n}

\* the configurations LoadFromFile accepts, their mappings made of the
\* rule lists given
ConfigsOver(lists) ==
    {c \in SeqsUpTo({Mapping(d, rl) : d \in Directions, rl \in lists}, MaxMappings) :
        Validate(c)}

QueryConfigs == ConfigsOver(RuleLists)

Ops == {OpEq, OpRe, OpNe, OpNre}

Quoted(v) == <<"\"">> \o v \o <<"\"">>

\* matcher values; three of them hold an operator's characters
Values ==
    { Quoted(<<"x">>),
      Quoted(<<"a", "=", "b">>),
      Quoted(<<"a", "=", "~", "b">>),
      Quoted(<<"a", "!", "=", "b">>),
      Quoted(<<"a", "!", "~", "b">>) }

MatcherLabels == {job, jobs, foo}

Matcher(l, op, v) == l \o op \o v

SingleFrags == {Matcher(l, op, v) : l \in MatcherLabels, op \in Ops, v \in Values}

\* fragments of groups with several matchers: matched, unmatched, with
\* whitespace around them, empty
MultiFrags ==
    { Matcher(job, OpEq, Quoted(<<"x">>)),
      <<" ">> \o Matcher(job, OpRe, Quoted(<<"x">>)),
      Matcher(svc, OpNe, Quoted(<<"y">>)),
      <<" ">> \o Matcher(foo, OpEq, Quoted(<<"z">>)) \o <<" ">>,
      <<>> }

QHead == <<"u", "p">>
QTails == { <<>>, <<"[", "5", "m", "]">> }

Group(frags) == <<"{">> \o Join(frags, <<",">>) \o <<"}">>

QueriesNoGroup ==
    { QHead, QHead \o <<"[", "5", "m", "]">>,
      QHead \o <<"{">> \o Matcher(job, OpEq, Quoted(<<"x">>)),
      QHead \o <<"}">> \o Matcher(job, OpEq, Quoted(<<"x">>)) \o <<"{">> }

QueriesOneMatcher == {QHead \o Group(<<f>>) \o t : f \in SingleFrags, t \in QTails}

QueriesMulti ==
    {QHead \o Group(fs) : fs \in UNION {[1..k -> MultiFrags] : k \in 2..MaxFrags}}

QueriesTwoGroups ==
    {QHead \o Group(<<f>>) \o <<"/">> \o QHead \o Group(<<g>>) :
        f \in {Matcher(job, OpEq, Quoted(<<"x">>)), Matcher(foo, OpEq, Quoted(<<"z">>))},
        g \in {Matcher(svc, OpRe, Quoted(<<"y">>)), Matcher(jobs, OpEq, Quoted(<<"x">>))}}

QueriesNested ==
    { QHead \o <<"{">> \o Group(<<Matcher(job, OpEq, Quoted(<<"x">>))>>) \o <<"}">>,
      QHead \o Group(<<>>) }

Queries ==
    QueriesNoGroup \cup QueriesOneMatcher \cup QueriesMulti
        \cup QueriesTwoGroups \cup QueriesNested

(***************************************************************************)
(* The query rewriter as a state machine: rewriter.New(cfg), then          *)
(* RewriteQuery(query).                                                    *)
(***************************************************************************)
None == <<"<", "n", "o", "n", "e", ">">>

QueryIdle == query = None /\ qout = None
ResultIdle == jsonData = <<>> /\ jsonResult = <<>> /\ tree = JNull

NoMessage == [Header |-> <<>>, ContentLength |-> 0, Body |-> Stream(<<>>)]
NoEnv == [readOk |-> TRUE, readN |-> 0, writeOk |-> TRUE, closeOk |-> TRUE, flushed |-> TRUE]
NoReturn == [err |-> FALSE, exit |-> "none"]
RequestIdle == origReq = NoMessage /\ req = NoMessage
ResponseIdle == origResp = NoMessage /\ resp = NoMessage
ProxyIdle == RequestIdle /\ ResponseIdle /\ ret = NoReturn /\ env = NoEnv

IdleUpdater == [pc |-> "idle", field |-> "none", cfg |-> <<>>, val |-> <<>>,
                installed |-> <<>>, n |-> 0]
IdleReader == [pc |-> "idle", op |-> "none", seen |-> <<>>, n |-> 0]
ReloadIdle == updater = IdleUpdater /\ reader = IdleReader /\ cfgMu = 0 /\ storing = "none"

InitQuery ==
    /\ config = None
    /\ ResultIdle
    /\ ProxyIdle
    /\ ReloadIdle
    /\ \E cfg \in QueryConfigs :
          /\ queryRules = GetQueryRules(cfg)
          /\ resultRules = GetResultRules(cfg)
    /\ query \in Queries
    /\ qout = None
    /\ pc = "start"

DoRewriteQuery ==
    /\ pc = "start"
    /\ qout' = RewriteQuery(queryRules, query)
    /\ pc' = "done"
    /\ UNCHANGED <<rewriterVars, query, resultVars, proxyVars, reloadVars>>

NextQuery == DoRewriteQuery

SpecQuery == InitQuery /\ [][NextQuery]_vars

(***************************************************************************)
(* What the claims about RewriteQuery speak of.                            *)
(***************************************************************************)
Sources(rules) == {rules[k].SourceLabel : k \in 1..Len(rules)}

\* the target of the first rule of the table whose source label is l
TargetOf(rules, l) ==
    LET ks == {k \in 1..Len(rules) : rules[k].SourceLabel = l}
    IN  rules[CHOOSE k \in ks : \A j \in ks : k <= j].TargetLabel

\* the brace groups of s, left to right, as <<first, last>> positions
RECURSIVE GroupsFrom(_, _)
GroupsFrom(s, i) ==
    IF i > Len(s) THEN <<>>
    ELSE LET q == MatchEnd(s, i)
         IN  IF q > 0 THEN <<(<<i, q>>)>> \o GroupsFrom(s, q + 1)
             ELSE GroupsFrom(s, i + 1)

Groups(s) == GroupsFrom(s, 1)

\* the texts outside the brace groups: before the first, between, after the last
Outside(s) ==
    LET g == Groups(s)
        n == Len(g)
    IN  [k \in 1..(n + 1) |->
            SubSeq(s, IF k = 1 THEN 1 ELSE g[k - 1][2] + 1,
                      IF k = n + 1 THEN Len(s) ELSE g[k][1] - 1)]

\* the comma-separated fragments of the k-th brace group
Fragments(s, k) ==
    LET g == Groups(s)[k] IN Split(SubSeq(s, g[1] + 1, g[2] - 1), <<",">>)

\* a fragment names the source label of a rule: trimmed, it begins with the
\* label immediately followed by a matcher operator
FragmentNames(frag, rule) ==
    \E op \in Ops : HasPrefix(TrimSpace(frag), rule.SourceLabel \o op)

FragmentUnmatched(rules, frag) ==
    \A k \in 1..Len(rules) : ~FragmentNames(frag, rules[k])

\* C1: a query with one brace group holding one matcher L op V, L a source
\* label of the query rule table, comes back with L replaced by the rule's
\* target label and with op and V exactly as they were, whatever V holds.
C1_SingleMatcherRenamed ==
    pc = "done" =>
        \A l \in Sources(queryRules), op \in Ops, v \in Values, t \in QTails :
            query = QHead \o Group(<<Matcher(l, op, v)>>) \o t
                => qout = QHead \o Group(<<Matcher(TargetOf(queryRules, l), op, v)>>) \o t

\* C9: RewriteQuery reproduces every part of the query outside a brace group
\* and every fragment of a group that matches no rule; so a query without a
\* brace group, a query none of whose fragments names a source label, and
\* any query under an empty rule table come back identical.
C9_OnlyMatchedFragmentsChange ==
    pc = "done" =>
        /\ Len(Groups(qout)) = Len(Groups(query))
        /\ Outside(qout) = Outside(query)
        /\ \A k \in 1..Len(Groups(query)) :
              /\ Len(Fragments(qout, k)) = Len(Fragments(query, k))
              /\ \A j \in 1..Len(Fragments(query, k)) :
                    FragmentUnmatched(queryRules, Fragments(query, k)[j])
                        => Fragments(qout, k)[j] = Fragments(query, k)[j]
        /\ Groups(query) = <<>> => qout = query
        /\ (\A k \in 1..Len(Groups(query)) : \A j \in 1..Len(Fragments(query, k)) :
                FragmentUnmatched(queryRules, Fragments(query, k)[j]))
              => qout = query
        /\ queryRules = <<>> => qout = query

\* a rewritten query with text outside its group and, in the group, a
\* rewritten fragment next to one with whitespace that matches no rule
C9_Witness ==
    /\ pc = "done"
    /\ qout # query
    /\ Len(Groups(query)) = 1
    /\ Outside(query)[1] # <<>>
    /\ \E j \in 1..Len(Fragments(query, 1)) :
          /\ FragmentUnmatched(queryRules, Fragments(query, 1)[j])
          /\ TrimSpace(Fragments(query, 1)[j]) # Fragments(query, 1)[j]
          /\ TrimSpace(Fragments(query, 1)[j]) # <<>>

(***************************************************************************)
(* Inputs of the result rewriter: rule lists, label sets and documents.    *)
(***************************************************************************)
ResultRuleLists ==
    { <<Rule(job, svc)>>, <<Rule(svc, job), Rule(job, host)>>,
      <<Rule(foo, svc)>>, <<Rule(job, job)>> }

ResultConfigs == ConfigsOver(ResultRuleLists)

TStr(x) == <<Tok("str", x)>>
TNum(x) == <<Tok("num", x)>>
TMember(k, vt) == <<Tok("str", k), P(":")>> \o vt
TObj(members) == <<P("{")>> \o Join(members, <<P(",")>>) \o <<P("}")>>
TArr(elems) == <<P("[")>> \o Join(elems, <<P(",")>>) \o <<P("]")>>
Ws == <<Tok("ws", <<" ">>)>>

\* the label names of the documents, in the order the backend writes them
LabelOrder == <<svc, job, host, foo>>
LabelValue(l) == <<"v">> \o l

IsLabelOf(ls) == [l \in {LabelOrder[i] : i \in 1..Len(LabelOrder)} |-> l \in ls]

LabelSetToks(ls) ==
    LET keys == SelectSeq(LabelOrder, LAMBDA l : IsLabelOf(ls)[l])
    IN  TObj([i \in 1..Len(keys) |-> TMember(keys[i], TStr(LabelValue(keys[i])))])

LabelSets ==
    {ls \in SUBSET {LabelOrder[i] : i \in 1..Len(LabelOrder)} : Cardinality(ls) <= MaxLabels}

k_result == <<"r", "e", "s", "u", "l", "t">>
k_status == <<"s", "t", "a", "t", "u", "s">>
k_data == <<"d", "a", "t", "a">>
k_value == <<"v", "a", "l", "u", "e">>
k_labels == <<"l", "a", "b", "e", "l", "s">>
s_success == <<"s", "u", "c", "c", "e", "s", "s">>

\* {"metric":LS}
DocsSimple == {TObj(<<TMember(metric, LabelSetToks(ls))>>) : ls \in LabelSets}

\* {"status":"success", "data":{"result":[{"value":[1e3,"1"],"metric":LS},{"metric":{"job":..}}]}}
DocsAPI ==
    {TObj(<<TMember(k_status, TStr(s_success)) \o Ws,
            TMember(k_data, TObj(<<TMember(k_result, TArr(<<
                TObj(<<TMember(k_value, TArr(<<TNum(<<"1", "e", "3">>), TStr(<<"1">>)>>)),
                       TMember(metric, LabelSetToks(ls))>>),
                TObj(<<TMember(metric, LabelSetToks({job}))>>)>>))>>))>>)
        : ls \in LabelSets}

\* a document whose root is an array: [{"metric":LS}]
DocsArrayRoot == {TArr(<<TObj(<<TMember(metric, LabelSetToks(ls))>>)>>) : ls \in LabelSets}

DocsOther ==
    { \* a label set that is not under a field named metric
      TObj(<<TMember(k_labels, LabelSetToks({job, svc}))>>),
      \* a field named metric that is no object
      TObj(<<TMember(metric, TStr(job)), TMember(job, TStr(<<"x">>))>>),
      \* a repeated key
      TObj(<<TMember(metric, LabelSetToks({foo})), TMember(metric, LabelSetToks({job}))>>),
      <<Tok("lit", <<"n", "u", "l", "l">>)>>,
      TObj(<<>>) }

\* bodies that are no JSON text: empty, cut short, not JSON at all,
\* two values
DocsInvalid ==
    { <<>>,
      <<P("{"), Tok("str", metric), P(":")>>,
      <<Tok("bad", <<"<", "h", "t", "m", "l", ">">>)>>,
      TObj(<<TMember(metric, LabelSetToks({job}))>>) \o TObj(<<>>),
      TObj(<<TMember(metric, LabelSetToks({job})) \o <<P(",")>>  >>) }

Docs == DocsSimple \cup DocsAPI \cup DocsArrayRoot \cup DocsOther \cup DocsInvalid

(***************************************************************************)
(* The result rewriter as a state machine: rewriter.New(cfg), then         *)
(* RewriteResultJSON(jsonData), or processJSONData on a parsed document.   *)
(***************************************************************************)
InitResult ==
    /\ config = None
    /\ QueryIdle
    /\ ProxyIdle
    /\ ReloadIdle
    /\ \E cfg \in ResultConfigs :
          /\ queryRules = GetQueryRules(cfg)
          /\ resultRules = GetResultRules(cfg)
    /\ jsonData \in Docs
    /\ jsonResult = <<>>
    /\ tree = JNull
    /\ pc = "start"

DoRewriteResultJSON ==
    /\ pc = "start"
    /\ jsonResult' = RewriteResultJSON(resultRules, jsonData)
    /\ pc' = "done"
    /\ UNCHANGED <<rewriterVars, queryVars, jsonData, tree, proxyVars, reloadVars>>

DoProcessJSONData ==
    /\ pc = "start"
    /\ ParseJSON(jsonData).ok
    /\ tree' = processJSONData(resultRules, ParseJSON(jsonData).val)
    /\ pc' = "processed"
    /\ UNCHANGED <<rewriterVars, queryVars, jsonData, jsonResult, proxyVars, reloadVars>>

NextResult == DoRewriteResultJSON \/ DoProcessJSONData

SpecResult == InitResult /\ [][NextResult]_vars

(***************************************************************************)
(* What the claims about the result rewriter speak of.                     *)
(***************************************************************************)
\* applying one rule as the claim words it: the source's value goes to the
\* target key, whatever it held, and the source key is removed
RenameLabel(m, rule) ==
    IF rule.SourceLabel \in DOMAIN m
    THEN [k \in ((DOMAIN m) \ {rule.SourceLabel}) \cup {rule.TargetLabel} |->
            IF k = rule.TargetLabel THEN m[rule.SourceLabel] ELSE m[k]]
    ELSE m

RECURSIVE RenameAll(_, _)
RenameAll(m, rules) ==
    IF rules = <<>> THEN m ELSE RenameAll(RenameLabel(m, Head(rules)), Tail(rules))

\* b is a with every label set directly under a field named metric
\* replaced by Expected of it; nothing is said of the rest
RECURSIVE LabelSetsAre(_, _, _)
LabelSetsAre(Expected(_), a, b) ==
    IF a.t = "obj"
    THEN /\ b.t = "obj"
         /\ \A k \in DOMAIN a.v :
               IF k = metric /\ IsObj(a.v[k])
               THEN /\ metric \in DOMAIN b.v
                    /\ IsObj(b.v[metric])
                    /\ b.v[metric].v = Expected(a.v[k].v)
               ELSE k \in DOMAIN b.v /\ LabelSetsAre(Expected, a.v[k], b.v[k])
    ELSE IF a.t = "arr"
    THEN /\ b.t = "arr"
         /\ Len(b.v) = Len(a.v)
         /\ \A i \in 1..Len(a.v) : LabelSetsAre(Expected, a.v[i], b.v[i])
    ELSE TRUE

InOrder(m) == RenameAll(m, resultRules)
Same(m) == m

NoSelfRename(rules) == \A i \in 1..Len(rules) : rules[i].SourceLabel # rules[i].TargetLabel
OnlySelfRenames(rules) ==
    rules # <<>> /\ \A i \in 1..Len(rules) : rules[i].SourceLabel = rules[i].TargetLabel

\* some label set under a field named metric satisfies Q
RECURSIVE SomeLabelSet(_, _)
SomeLabelSet(Q(_), a) ==
    IF a.t = "obj"
    THEN \E k \in DOMAIN a.v :
            IF k = metric /\ IsObj(a.v[k]) THEN Q(a.v[k].v) ELSE SomeLabelSet(Q, a.v[k])
    ELSE IF a.t = "arr" THEN \E i \in 1..Len(a.v) : SomeLabelSet(Q, a.v[i])
    ELSE FALSE

\* C2: under a rule table without a rule from a label to itself, every label
\* set under a field named metric becomes the result of applying the rules
\* one after another in table order (the value of the source goes to the
\* target, overwriting it, and the source is removed); of two rules that
\* write one target the later one's value remains.
C2_RulesAppliedInOrder ==
    NoSelfRename(resultRules) =>
        /\ pc = "processed" => LabelSetsAre(InOrder, ParseJSON(jsonData).val, tree)
        /\ (pc = "done" /\ Unmarshal(jsonData).ok) =>
              /\ ParseJSON(jsonResult).ok
              /\ LabelSetsAre(InOrder, ParseJSON(jsonData).val, ParseJSON(jsonResult).val)

\* two rules of the table write svc and the label set holds both sources
TwoWriters(m) ==
    /\ {job, foo} \subseteq DOMAIN m
    /\ Rule(job, svc) \in {resultRules[i] : i \in 1..Len(resultRules)}
    /\ Rule(foo, svc) \in {resultRules[i] : i \in 1..Len(resultRules)}
    /\ Rule(svc, job) \notin {resultRules[i] : i \in 1..Len(resultRules)}

C2_Witness ==
    /\ pc = "done"
    /\ NoSelfRename(resultRules)
    /\ Unmarshal(jsonData).ok
    /\ jsonResult # jsonData
    /\ SomeLabelSet(TwoWriters, ParseJSON(jsonData).val)

\* C3: a rule from a label to itself leaves a label set that holds the
\* label as it was.
C3_SelfRenameIsNoOp ==
    (pc = "processed" /\ OnlySelfRenames(resultRules))
        => LabelSetsAre(Same, ParseJSON(jsonData).val, tree)

(***************************************************************************)
(* Inputs of the proxy: requests of the client, responses of the backend.  *)
(***************************************************************************)
ProxyConfigs == ConfigsOver({ <<Rule(job, svc)>> })

up_job_x == QHead \o Group(<<Matcher(job, OpEq, Quoted(<<"x">>))>>)
up_job_re == QHead \o Group(<<Matcher(job, OpRe, Quoted(<<"x">>))>>)
p_time == <<"t", "i", "m", "e">>

\* query strings and form bodies: escaped, unescaped, in an order Encode
\* changes, with a malformed escape, with a semicolon
FormTexts ==
    { <<>>,
      p_query \o <<"=">> \o QueryEscape(up_job_x),
      p_match \o <<"=">> \o up_job_re,
      p_time \o <<"=", "5", "&">> \o p_query \o <<"=">> \o QHead,
      p_query \o <<"=", "%", "z", "z", "&">> \o p_time \o <<"=", "5">>,
      p_query \o <<"=">> \o QHead \o <<";">> \o p_time \o <<"=", "5">> }

RawQueries ==
    { <<>>,
      p_query \o <<"=">> \o QueryEscape(up_job_x),
      p_match \o <<"=">> \o up_job_re,
      p_query \o <<"=", "%", "z", "z", "&">> \o p_time \o <<"=", "5">> }

RequestContentTypes ==
    { ct_form, ct_form \o <<";", " ", "c", "h", "a", "r", "s", "e", "t", "=", "u", "t", "f", "-", "8">>, application_json }

Framed(h, body) == Set(h, "Content-Length", Itoa(Len(body)))

Requests ==
    {[Method |-> "GET", RawQuery |-> q, HasBody |-> FALSE, Header |-> <<>>,
      ContentLength |-> 0, Body |-> Stream(<<>>)] : q \in RawQueries}
    \cup
    {[Method |-> "POST", RawQuery |-> q, HasBody |-> TRUE,
      Header |-> Framed(Set(<<>>, "Content-Type", ct), b),
      ContentLength |-> Len(b), Body |-> Stream(b)] :
        q \in RawQueries, ct \in RequestContentTypes, b \in FormTexts}

ResponseContentTypes ==
    { application_json, application_json \o <<";", " ", "c", "h", "a", "r", "s", "e", "t", "=", "u", "t", "f", "-", "8">>,
      <<"t", "e", "x", "t", "/", "p", "l", "a", "i", "n">>, <<"a", "p", "p", "l", "i", "c", "a", "t", "i", "o", "n", "/", "x", "m", "l">>, <<>> }

doc_job == TObj(<<TMember(metric, LabelSetToks({job}))>>)

\* what the backend answers: documents the result rules change or leave,
\* a document with an array as root, texts that are no JSON
Contents ==
    { doc_job,
      TObj(<<TMember(k_status, TStr(s_success)) \o Ws,
             TMember(k_data, TArr(<<TObj(<<TMember(metric, LabelSetToks({svc, job}))>>)>>))>>),
      TObj(<<TMember(k_labels, LabelSetToks({job}))>>),
      TArr(<<doc_job>>),
      <<P("{"), Tok("str", metric), P(":")>>,
      <<Tok("bad", <<"<", "h", "t", "m", "l", ">">>)>>,
      <<>> }

\* the body bytes and the Content-Encoding header that carry a content:
\* as it is, gzipped by the backend, declared gzip but not gzipped,
\* gzipped and cut short, brotli
Encodings(c) ==
    { [ce |-> <<>>, body |-> c],
      [ce |-> gzip, body |-> GzipStream(<<"9">>, c)],
      [ce |-> gzip, body |-> c],
      [ce |-> gzip, body |-> <<GzHeader(<<"9">>)>> \o c],
      [ce |-> <<"b", "r">>, body |-> <<Tok("br", <<>>)>> \o c] }

ResponseHeader(ct, ce) ==
    LET h1 == IF ct = <<>> THEN <<>> ELSE Set(<<>>, "Content-Type", ct)
    IN  IF ce = <<>> THEN h1 ELSE Set(h1, "Content-Encoding", ce)

\* with a Content-Length, or chunked (ContentLength -1, no header)
Responses ==
    {[Header |-> Framed(ResponseHeader(ct, e.ce), e.body),
      ContentLength |-> Len(e.body), Body |-> Stream(e.body)] :
        ct \in ResponseContentTypes, e \in UNION {Encodings(c) : c \in Contents}}
    \cup
    {[Header |-> ResponseHeader(ct, e.ce),
      ContentLength |-> -1, Body |-> Stream(e.body)] :
        ct \in ResponseContentTypes, e \in UNION {Encodings(c) : c \in Contents}}

\* reading the body fails after readN bytes, or succeeds and then the
\* gzip writer works, fails in Write, or fails in Close
Envs ==
    {[readOk |-> FALSE, readN |-> n, writeOk |-> TRUE, closeOk |-> TRUE, flushed |-> TRUE] :
        n \in {0, 1}}
    \cup
    {[readOk |-> TRUE, readN |-> 0, writeOk |-> TRUE, closeOk |-> TRUE, flushed |-> TRUE],
     [readOk |-> TRUE, readN |-> 0, writeOk |-> FALSE, closeOk |-> FALSE, flushed |-> FALSE],
     [readOk |-> TRUE, readN |-> 0, writeOk |-> TRUE, closeOk |-> FALSE, flushed |-> TRUE],
     [readOk |-> TRUE, readN |-> 0, writeOk |-> TRUE, closeOk |-> FALSE, flushed |-> FALSE]}

(***************************************************************************)
(* The interception pipeline as a state machine: proxy.New(cfg), then the  *)
(* Director hook on a request or the ModifyResponse hook on a response.    *)
(***************************************************************************)
Init ==
    /\ config = None
    /\ QueryIdle
    /\ ResultIdle
    /\ ReloadIdle
    /\ ret = NoReturn
    /\ env = NoEnv
    /\ \/ /\ pc = "request"
          /\ origReq \in Requests
          /\ req = origReq
          /\ ResponseIdle
       \/ /\ pc = "response"
          /\ origResp \in Responses
          /\ resp = origResp
          /\ RequestIdle
    /\ \E cfg \in ProxyConfigs :
          /\ queryRules = GetQueryRules(cfg)
          /\ resultRules = GetResultRules(cfg)

DoRewriteRequest ==
    /\ pc = "request"
    /\ \E e \in Envs :
          LET out == rewriteRequest(queryRules, req, e)
          IN  /\ req' = out.msg
              /\ ret' = [err |-> out.err, exit |-> out.exit]
              /\ env' = e
    /\ pc' = "forwarded"
    /\ UNCHANGED <<rewriterVars, queryVars, resultVars, reloadVars, origReq, origResp, resp>>

DoRewriteResponse ==
    /\ pc = "response"
    /\ \E e \in Envs :
          LET out == rewriteResponse(resultRules, resp, e)
          IN  /\ resp' = out.msg
              /\ ret' = [err |-> out.err, exit |-> out.exit]
              /\ env' = e
    /\ pc' = "returned"
    /\ UNCHANGED <<rewriterVars, queryVars, resultVars, reloadVars, origReq, req, origResp>>

Next == DoRewriteRequest \/ DoRewriteResponse

Spec == Init /\ [][Next]_vars

(***************************************************************************)
(* What the claims about the interception pipeline speak of.               *)
(***************************************************************************)
\* the bytes the next reader of the message body gets: what is sent on
Sent(m) == Remaining(m.Body)

\* the number a decimal text stands for, -1 if it is no decimal text
RECURSIVE DecimalFrom(_, _)
DecimalFrom(x, acc) ==
    IF x = <<>> THEN acc
    ELSE LET d == {i \in 1..10 : Digits[i] = Head(x)}
         IN  IF d = {} THEN -1 ELSE DecimalFrom(Tail(x), 10 * acc + (CHOOSE i \in d : TRUE) - 1)

Decimal(x) == IF x = <<>> THEN -1 ELSE DecimalFrom(x, 0)

FramingExact(m) ==
    /\ m.ContentLength = Len(Sent(m))
    /\ "Content-Length" \in DOMAIN m.Header
    /\ Decimal(m.Header["Content-Length"]) = Len(Sent(m))

DeclaredGzip(m) == Get(m.Header, "Content-Encoding") = gzip
JSONTyped(m) == Contains(Get(m.Header, "Content-Type"), application_json)
GzipComplete(b) == NewReaderOk(b) /\ ReadAllOk(b)

\* the backend's body cannot be decompressed
Undecodable(m) == DeclaredGzip(m) /\ ~GzipComplete(m.Body.data)

\* the content of the backend's response, decompressed if it was gzip
ContentOf(m) == IF DeclaredGzip(m) THEN Inflated(m.Body.data) ELSE m.Body.data

\* what a client that honours Content-Encoding gets out of the message
Decoded(m) ==
    IF DeclaredGzip(m)
    THEN IF GzipComplete(Sent(m)) THEN [ok |-> TRUE, val |-> Inflated(Sent(m))]
         ELSE [ok |-> FALSE, val |-> <<>>]
    ELSE [ok |-> TRUE, val |-> Sent(m)]

IsFormPost(m) ==
    m.Method = "POST" /\ m.HasBody /\ Get(m.Header, "Content-Type") = ct_form

\* C5: when rewriteRequest has begun to consume a form body and reading or
\* parsing it fails, the request forwarded still carries the original body
\* and the original Content-Length.
C5_BodyKeptOnFailure ==
    (pc = "forwarded" /\ IsFormPost(origReq) /\ ret.exit \in {"readErr", "parseErr"}) =>
        /\ Sent(req) = origReq.Body.data
        /\ req.ContentLength = origReq.ContentLength
        /\ Get(req.Header, "Content-Length") = Get(origReq.Header, "Content-Length")

\* C6: when rewriteRequest or rewriteResponse has replaced the body, the
\* ContentLength field and the Content-Length header both equal the length
\* of the body that is sent.
C6_ContentLengthExact ==
    /\ (pc = "forwarded" /\ ret.exit = "rewritten") => FramingExact(req)
    /\ (pc = "returned" /\ ret.exit = "rewritten") => FramingExact(resp)

\* a gzip response whose rewritten body goes out uncompressed after
\* gzipWriter.Write failed, with a length the backend's did not have
C6_Witness ==
    /\ pc = "returned"
    /\ ret.exit = "rewritten"
    /\ DeclaredGzip(origResp)
    /\ ~env.writeOk
    /\ resultRules # <<>>
    /\ Sent(resp) # ContentOf(origResp)
    /\ Len(Sent(resp)) # origResp.ContentLength

\* C7: after rewriteResponse on a response that declared gzip, the body is
\* the complete gzip encoding of the rewritten bytes under a gzip header if
\* recompression succeeded, and the uncompressed rewritten bytes without a
\* Content-Encoding header if writing or finalising the gzip stream failed.
C7_EncodingMatchesBody ==
    (pc = "returned" /\ DeclaredGzip(origResp) /\ ret.exit = "rewritten") =>
        LET rewritten == RewriteResultJSON(resultRules, ContentOf(origResp))
        IN  IF env.writeOk /\ env.closeOk
            THEN /\ DeclaredGzip(resp)
                 /\ GzipComplete(Sent(resp))
                 /\ Inflated(Sent(resp)) = rewritten
            ELSE /\ "Content-Encoding" \notin DOMAIN resp.Header
                 /\ Sent(resp) = rewritten

\* C10: a response whose Content-Type does not contain application/json
\* passes through: body unread, no header changed, no error.
C10_NonJSONUntouched ==
    (pc = "returned" /\ ~Contains(Get(origResp.Header, "Content-Type"), application_json)) =>
        /\ resp = origResp
        /\ resp.Body.off = 0
        /\ ~ret.err

\* an application/xml response, gzipped, whose content the result rules
\* would change
C10_Witness ==
    /\ pc = "returned"
    /\ Get(origResp.Header, "Content-Type") = <<"a", "p", "p", "l", "i", "c", "a", "t", "i", "o", "n", "/", "x", "m", "l">>
    /\ origResp.Body.data = GzipStream(<<"9">>, doc_job)
    /\ DeclaredGzip(origResp)
    /\ RewriteResultJSON(resultRules, doc_job) # doc_job

(***************************************************************************)
(* A configuration reload next to the rewrites: a goroutine in             *)
(* Rewriter.UpdateConfig (lines 28-31) and a goroutine of the HTTP server  *)
(* in RewriteQuery or RewriteResultJSON.  UpdateConfig takes cfg.mu, the   *)
(* lock of the Config it reads, inside GetRules and nothing else; the      *)
(* Rewriter has no lock.  A store to a slice field writes several words:   *)
(* a load of the field while the store is in flight is a data race and     *)
(* yields the old table, the new one or a torn one.                        *)
(***************************************************************************)
ReloadConfigs ==
    { <<>>,
      <<Mapping(DirectionBoth, <<Rule(job, svc)>>)>>,
      <<Mapping(DirectionQuery, <<Rule(svc, job), Rule(job, host)>>),
        Mapping(DirectionResult, <<Rule(foo, svc)>>)>> }

Torn == <<Rule(<<"t", "o", "r", "n">>, <<"t", "o", "r", "n">>)>>

FieldOf(op) == IF op = "RewriteQuery" THEN "queryRules" ELSE "resultRules"
FieldValue(f) == IF f = "queryRules" THEN queryRules ELSE resultRules

\* what a load of the Rewriter field f can yield
Loads(f) == IF storing = f THEN {FieldValue(f), updater.val, Torn} ELSE {FieldValue(f)}

InitReload ==
    /\ config = None
    /\ QueryIdle
    /\ ResultIdle
    /\ ProxyIdle
    /\ pc = "serving"
    /\ \E cfg \in ReloadConfigs :
          /\ queryRules = GetQueryRules(cfg)
          /\ resultRules = GetResultRules(cfg)
          /\ updater = [IdleUpdater EXCEPT !.installed = cfg]
    /\ reader = IdleReader
    /\ cfgMu = 0
    /\ storing = "none"

\* PrometheusProxy.UpdateConfig calls p.rewriter.UpdateConfig(cfg)
UpdateConfigCall ==
    /\ updater.pc = "idle"
    /\ updater.n < MaxReloads
    /\ \E cfg \in ReloadConfigs :
          updater' = [updater EXCEPT !.pc = "rlock", !.field = "queryRules", !.cfg = cfg]
    /\ UNCHANGED <<rewriterVars, pc, queryVars, resultVars, proxyVars, reader, cfgMu, storing>>

\* GetRules line 92: c.mu.RLock()
GetRulesRLock ==
    /\ updater.pc = "rlock"
    /\ cfgMu' = cfgMu + 1
    /\ updater' = [updater EXCEPT !.pc = "runlock"]
    /\ UNCHANGED <<rewriterVars, pc, queryVars, resultVars, proxyVars, reader, storing>>

\* GetRules lines 95-101 and the deferred c.mu.RUnlock()
GetRulesReturn ==
    /\ updater.pc = "runlock"
    /\ cfgMu' = cfgMu - 1
    /\ updater' = [updater EXCEPT
          !.pc = "store",
          !.val = IF updater.field = "queryRules" THEN GetQueryRules(updater.cfg)
                  ELSE GetResultRules(updater.cfg)]
    /\ UNCHANGED <<rewriterVars, pc, queryVars, resultVars, proxyVars, reader, storing>>

\* lines 29 and 30: the store to the field begins
StoreBegin ==
    /\ updater.pc = "store"
    /\ storing' = updater.field
    /\ updater' = [updater EXCEPT !.pc = "storing"]
    /\ UNCHANGED <<rewriterVars, pc, queryVars, resultVars, proxyVars, reader, cfgMu>>

\* the store is complete; after line 30 UpdateConfig returns
StoreEnd ==
    /\ updater.pc = "storing"
    /\ storing' = "none"
    /\ IF updater.field = "queryRules"
       THEN /\ queryRules' = updater.val
            /\ UNCHANGED resultRules
            /\ updater' = [updater EXCEPT !.pc = "rlock", !.field = "resultRules"]
       ELSE /\ resultRules' = updater.val
            /\ UNCHANGED queryRules
            /\ updater' = [updater EXCEPT !.pc = "idle", !.field = "none",
                                          !.installed = updater.cfg, !.n = @ + 1]
    /\ UNCHANGED <<config, pc, queryVars, resultVars, proxyVars, reader, cfgMu>>

\* a request or a response arrives: RewriteQuery or RewriteResultJSON begins
RewriteCall ==
    /\ reader.pc = "idle"
    /\ reader.n < MaxRewrites
    /\ \E op \in {"RewriteQuery", "RewriteResultJSON"} :
          reader' = [reader EXCEPT !.pc = "len", !.op = op, !.seen = <<>>]
    /\ UNCHANGED <<rewriterVars, pc, queryVars, resultVars, proxyVars, updater, cfgMu, storing>>

\* lines 35 and 99: len(r.queryRules) == 0, len(r.resultRules) == 0
RewriteLoadLen ==
    /\ reader.pc = "len"
    /\ \E t \in Loads(FieldOf(reader.op)) :
          reader' = IF Len(t) = 0
                    THEN [reader EXCEPT !.pc = "idle", !.seen = Append(@, t), !.n = @ + 1]
                    ELSE [reader EXCEPT !.pc = "range", !.seen = Append(@, t)]
    /\ UNCHANGED <<rewriterVars, pc, queryVars, resultVars, proxyVars, updater, cfgMu, storing>>

\* lines 51 and 130: range r.queryRules, range r.resultRules; the rewrite
\* then returns
RewriteLoadRange ==
    /\ reader.pc = "range"
    /\ \E t \in Loads(FieldOf(reader.op)) :
          reader' = [reader EXCEPT !.pc = "idle", !.seen = Append(@, t), !.n = @ + 1]
    /\ UNCHANGED <<rewriterVars, pc, queryVars, resultVars, proxyVars, updater, cfgMu, storing>>

NextReload ==
    \/ UpdateConfigCall
    \/ GetRulesRLock
    \/ GetRulesReturn
    \/ StoreBegin
    \/ StoreEnd
    \/ RewriteCall
    \/ RewriteLoadLen
    \/ RewriteLoadRange

SpecReload == InitReload /\ [][NextReload]_vars

\* the reload is replacing the tables: from the first store to the last
Replacing ==
    updater.pc # "idle" /\ (storing # "none" \/ updater.field = "resultRules")

\* a rewrite is at work on the tables
Reading == reader.pc # "idle"

\* C8: a rewrite that runs next to a reload never sees a partly updated
\* table: wherever a reader can run, the query rules and the result rules
\* of the Rewriter come from one configuration, and the reload's
\* replacement of the tables excludes every reader's access.
C8_NoPartialTable ==
    /\ \E c \in {updater.installed, updater.cfg} :
          /\ queryRules = GetQueryRules(c)
          /\ resultRules = GetResultRules(c)
    /\ ~(Replacing /\ Reading)

(***************************************************************************)
(* The README's example: the configuration of its Configuration section    *)
(* (lines 266-281 of the text after proxy.go), the query of its Example    *)
(* section, and backend responses over the four labels it names.           *)
(***************************************************************************)
instance == <<"i", "n", "s", "t", "a", "n", "c", "e">>
service == <<"s", "e", "r", "v", "i", "c", "e">>

ExampleRules == <<Rule(instance, host), Rule(job, service)>>

ExampleConfig ==
    <<Mapping(DirectionQuery, ExampleRules), Mapping(DirectionResult, ExampleRules)>>

\* up{instance="localhost:9090",job="prometheus"}
ExampleQuery ==
    QHead \o Group(<<
        Matcher(instance, OpEq, Quoted(<<"l", "o", "c", "a", "l", "h", "o", "s", "t", ":", "9", "0", "9", "0">>)),
        Matcher(job, OpEq, Quoted(<<"p", "r", "o", "m", "e", "t", "h", "e", "u", "s">>))>>)

ExampleRequests ==
    {[Method |-> "GET", RawQuery |-> p_query \o <<"=">> \o q, HasBody |-> FALSE,
      Header |-> <<>>, ContentLength |-> 0, Body |-> Stream(<<>>)] :
        q \in {ExampleQuery, QueryEscape(ExampleQuery)}}
    \cup
    {[Method |-> "POST", RawQuery |-> <<>>, HasBody |-> TRUE,
      Header |-> Framed(Set(<<>>, "Content-Type", ct_form), b),
      ContentLength |-> Len(b), Body |-> Stream(b)] :
        b \in {p_query \o <<"=">> \o QueryEscape(ExampleQuery)}}

ExampleLabelOrder == <<instance, host, job, service>>

ExampleLabelSetToks(ls) ==
    LET keys == SelectSeq(ExampleLabelOrder, LAMBDA l : l \in ls)
    IN  TObj([i \in 1..Len(keys) |-> TMember(keys[i], TStr(LabelValue(keys[i])))])

ExampleLabelSets == SUBSET {instance, host, job, service}

\* {"metric":LS} and {"status":"success","data":{"result":[{"metric":LS,"value":[1,"1"]}]}}
ExampleContents ==
    {TObj(<<TMember(metric, ExampleLabelSetToks(ls))>>) : ls \in ExampleLabelSets}
    \cup
    {TObj(<<TMember(k_status, TStr(s_success)),
            TMember(k_data, TObj(<<TMember(k_result, TArr(<<
                TObj(<<TMember(metric, ExampleLabelSetToks(ls)),
                       TMember(k_value, TArr(<<TNum(<<"1">>), TStr(<<"1">>)>>))>>)>>))>>))>>)
        : ls \in ExampleLabelSets}

ExampleResponses ==
    {[Header |-> Framed(ResponseHeader(application_json, e.ce), e.body),
      ContentLength |-> Len(e.body), Body |-> Stream(e.body)] :
        e \in UNION {{[ce |-> <<>>, body |-> c], [ce |-> gzip, body |-> GzipStream(<<"9">>, c)]} :
                        c \in ExampleContents}}

InitExample ==
    /\ config = None
    /\ QueryIdle
    /\ ResultIdle
    /\ ReloadIdle
    /\ ret = NoReturn
    /\ env = NoEnv
    /\ \/ /\ pc = "request"
          /\ origReq \in ExampleRequests
          /\ req = origReq
          /\ ResponseIdle
       \/ /\ pc = "response"
          /\ origResp \in ExampleResponses
          /\ resp = origResp
          /\ RequestIdle
    /\ queryRules = GetQueryRules(ExampleConfig)
    /\ resultRules = GetResultRules(ExampleConfig)

SpecExample == InitExample /\ [][Next]_vars

\* a label set as the backend names it: host and service, not the client's
\* instance and job
BackendNamed(m) == {host, service} \subseteq DOMAIN m /\ instance \notin DOMAIN m /\ job \notin DOMAIN m
NotBackendNamed(m) == ~BackendNamed(m)

\* host goes back to instance and service to job
RewrittenBack(m) == RenameAll(m, <<Rule(host, instance), Rule(service, job)>>)

\* the response was processed without a failure of the environment
Delivered ==
    /\ pc = "returned"
    /\ ret.exit = "rewritten"
    /\ env.readOk /\ env.writeOk /\ env.closeOk

\* C11: under the README's example configuration, a backend response whose
\* label sets carry host and service reaches the client with host rewritten
\* back to instance and service back to job.
C11_ExampleRewritesBack ==
    (/\ Delivered
     /\ resultRules = GetResultRules(ExampleConfig)
     /\ SomeLabelSet(BackendNamed, ParseJSON(ContentOf(origResp)).val)
     /\ ~SomeLabelSet(NotBackendNamed, ParseJSON(ContentOf(origResp)).val)) =>
        /\ Decoded(resp).ok
        /\ ParseJSON(Decoded(resp).val).ok
        /\ LabelSetsAre(RewrittenBack, ParseJSON(ContentOf(origResp)).val,
                        ParseJSON(Decoded(resp).val).val)

(***************************************************************************)
(* The query rewriter with the configuration on record: rewriter.New(cfg)  *)
(* resolves the query rule table from cfg, then RewriteQuery(query).       *)
(***************************************************************************)
InitOrder ==
    /\ ResultIdle
    /\ ProxyIdle
    /\ ReloadIdle
    /\ query \in Queries
    /\ qout = None
    /\ pc = "start"
    /\ \E cfg \in QueryConfigs :
          /\ config = cfg
          /\ queryRules = GetQueryRules(cfg)
          /\ resultRules = GetResultRules(cfg)

SpecOrder == InitOrder /\ [][NextQuery]_vars

\* the resolved table as the claim words it: the rules of the mappings whose
\* direction is query or both, mapping after mapping, rule after rule
RECURSIVE ResolvedQueryTable(_)
ResolvedQueryTable(mappings) ==
    IF mappings = <<>> THEN <<>>
    ELSE (IF Head(mappings).Direction \in {DirectionQuery, DirectionBoth}
          THEN Head(mappings).Rules ELSE <<>>)
         \o ResolvedQueryTable(Tail(mappings))

\* the rules of the table that a fragment names
NamedBy(table, frag) == {k \in 1..Len(table) : FragmentNames(frag, table[k])}

FirstNamed(table, frag) ==
    table[CHOOSE k \in NamedBy(table, frag) : \A j \in NamedBy(table, frag) : k <= j]

\* C12: every fragment of a brace group is rewritten by the first rule of
\* the resolved table (mapping order, then rule order, over the mappings of
\* direction query or both) whose source label followed by an operator
\* begins the trimmed fragment, and only once: it comes back under that
\* rule's target label, whatever later rules say about the source or the
\* target; a fragment that names no rule comes back as it was.
C12_FirstRuleWinsOnce ==
    (pc = "done" /\ config # None) =>
        LET table == ResolvedQueryTable(config)
        IN  /\ queryRules = table
            /\ Len(Groups(qout)) = Len(Groups(query))
            /\ \A k \in 1..Len(Groups(query)) :
                  /\ Len(Fragments(qout, k)) = Len(Fragments(query, k))
                  /\ \A j \in 1..Len(Fragments(query, k)) :
                        LET frag == Fragments(query, k)[j]
                            out == Fragments(qout, k)[j]
                        IN  IF NamedBy(table, frag) = {} THEN out = frag
                            ELSE \E op \in Ops :
                                    HasPrefix(out, FirstNamed(table, frag).TargetLabel \o op)

\* a fragment that two rules of two mappings name, with different targets,
\* and the target of the first of them is the source of a later rule
C12_Witness ==
    /\ pc = "done"
    /\ config # None
    /\ Len(config) = 2
    /\ Len(Groups(query)) = 1
    /\ \E j \in 1..Len(Fragments(query, 1)) :
          LET frag == Fragments(query, 1)[j]
              table == ResolvedQueryTable(config)
          IN  /\ table = config[1].Rules \o config[2].Rules
              /\ \E a, b \in NamedBy(table, frag) : table[a].TargetLabel # table[b].TargetLabel
              /\ \E c \in 1..Len(table) :
                    table[c].SourceLabel = FirstNamed(table, frag).TargetLabel
              /\ \E op \in Ops :
                    HasPrefix(Fragments(qout, 1)[j], FirstNamed(table, frag).TargetLabel \o op)

(***************************************************************************)
(* What the claim about whole documents speaks of.                         *)
(***************************************************************************)
\* b is a with every label set directly under a field named metric
\* rewritten by the rules, and with every other field, element and scalar
\* as it was (a number as the same float64)
RECURSIVE RewrittenTree(_, _, _)
RewrittenTree(rules, a, b) ==
    IF a.t = "obj"
    THEN /\ b.t = "obj"
         /\ DOMAIN b.v = DOMAIN a.v
         /\ \A k \in DOMAIN a.v :
               IF k = metric /\ IsObj(a.v[k])
               THEN b.v[k] = JObj(RenameAll(a.v[k].v, rules))
               ELSE RewrittenTree(rules, a.v[k], b.v[k])
    ELSE IF a.t = "arr"
    THEN /\ b.t = "arr"
         /\ Len(b.v) = Len(a.v)
         /\ \A i \in 1..Len(a.v) : RewrittenTree(rules, a.v[i], b.v[i])
    ELSE /\ b.t = a.t
         /\ IF a.t = "num" THEN Float64Text(b.v) = Float64Text(a.v) ELSE b.v = a.v

\* C13: RewriteResultJSON, under a non-empty result rule table, rewrites
\* every label set under a field named metric at any depth of a valid JSON
\* document, be its root an object or an array, and leaves every other
\* field, element and scalar as it was.
C13_ObjectAndArrayRoots ==
    (/\ pc = "done"
     /\ resultRules # <<>>
     /\ NoSelfRename(resultRules)
     /\ ParseJSON(jsonData).ok
     /\ ParseJSON(jsonData).val.t \in {"obj", "arr"}) =>
        /\ ParseJSON(jsonResult).ok
        /\ RewrittenTree(resultRules, ParseJSON(jsonData).val, ParseJSON(jsonResult).val)

====
